---------------------------- MODULE Spec2Model ----------------------------
(***************************************************************************)
(* SysMLv2 textual notation validator (src/sysmlv2_validator.py).          *)
(*                                                                         *)
(* A text is a sequence of characters, a character a one-character string. *)
(* A document is a text that may hold the newline character; validate      *)
(* splits it into lines and runs seven passes over the lines.              *)
(***************************************************************************)
EXTENDS Integers, Sequences, FiniteSets, TLC

VARIABLES
    source,     \* the document handed to the last call
    lines,      \* SysMLv2Validator.lines
    errors,     \* SysMLv2Validator.errors
    symbols,    \* SysMLv2Validator.symbols
    returned,   \* the list validate returned, or None
    result,     \* the dict validate_sysmlv2 returned, or None
    raised,     \* TRUE when the last call ended by an exception
    reused      \* history: TRUE when the last call ran on a validator that
                \* held diagnostics or symbols of an earlier call

vars == <<source, lines, errors, symbols, returned, result, raised, reused>>

\* None, for a text that is absent
None == <<>>

-----------------------------------------------------------------------------
(* Texts                                                                   *)

NL == "\n"

Lower == {"a","b","c","d","e","f","g","h","i","j","k","l","m",
          "n","o","p","q","r","s","t","u","v","w","x","y","z"}
Upper == {"A","B","C","D","E","F","G","H","I","J","K","L","M",
          "N","O","P","Q","R","S","T","U","V","W","X","Y","Z"}
Digits == {"0","1","2","3","4","5","6","7","8","9"}

Letters == Lower \cup Upper
WordChars == Letters \cup Digits \cup {"_"}
Spaces == {" ", "\t"}

\* \s of the re module, within one line
IsSpace(c) == c \in Spaces
\* \w of the re module
IsWord(c) == c \in WordChars
\* \d
IsDigit(c) == c \in Digits
IsAlphaChar(c) == c \in Letters

\* s[i:] with a 1-based i
Drop(s, i) == SubSeq(s, i, Len(s))
\* s[:n]
Take(s, n) == SubSeq(s, 1, n)

\* s.startswith(p) at 1-based position i: s[i:].startswith(p)
StartsAt(s, p, i) ==
    /\ i + Len(p) - 1 <= Len(s)
    /\ \A k \in 1..Len(p) : s[i + k - 1] = p[k]

StartsWith(s, p) == StartsAt(s, p, 1)

\* s.find(p, i - 1) + 1 : the 1-based position of the first occurrence at or
\* after i, 0 when there is none
RECURSIVE FindFrom(_, _, _)
FindFrom(s, p, i) ==
    IF i + Len(p) - 1 > Len(s) THEN 0
    ELSE IF StartsAt(s, p, i) THEN i
    ELSE FindFrom(s, p, i + 1)

\* s.find(p) + 1
Find(s, p) == FindFrom(s, p, 1)

\* p in s
Contains(s, p) == Find(s, p) # 0

\* the position of the first character at or after i that is not white space
RECURSIVE SkipSpaces(_, _)
SkipSpaces(s, i) ==
    IF i <= Len(s) /\ IsSpace(s[i]) THEN SkipSpaces(s, i + 1) ELSE i

\* the position of the last character at or before i that is not white space
RECURSIVE SkipSpacesBack(_, _)
SkipSpacesBack(s, i) ==
    IF i >= 1 /\ IsSpace(s[i]) THEN SkipSpacesBack(s, i - 1) ELSE i

\* s.strip()
Strip(s) == SubSeq(s, SkipSpaces(s, 1), SkipSpacesBack(s, Len(s)))

\* s.isalpha()
IsAlpha(s) == Len(s) > 0 /\ \A i \in 1..Len(s) : IsAlphaChar(s[i])

\* source.splitlines(): the lines between newlines; a final newline ends the
\* last line and opens no new one.  n is the place of the first newline
RECURSIVE SplitLines(_)
SplitAt(s, n) ==
    IF n = 0 THEN <<s>> ELSE <<Take(s, n - 1)>> \o SplitLines(Drop(s, n + 1))

SplitLines(s) == IF s = <<>> THEN <<>> ELSE SplitAt(s, Find(s, <<NL>>))

-----------------------------------------------------------------------------
(* Diagnostics                                                             *)

\* ValidationError(line, col, message, severity); the message is kept as the
\* tuple of its kind and of the values formatted into it
ValidationError(line, col, message, severity) ==
    [line |-> line, col |-> col, message |-> message, severity |-> severity]

\* ValidationError.to_dict
ToDict(e) ==
    [line |-> e.line, col |-> e.col, message |-> e.message, severity |-> e.severity]

\* the state the passes of one call work on: self.errors, self.symbols, and
\* whether an exception is propagating
Ctx(errs, syms, exc) == [errors |-> errs, symbols |-> syms, raised |-> exc]

\* self.errors.append(e)
AddError(ctx, e) == [ctx EXCEPT !.errors = Append(@, e)]

-----------------------------------------------------------------------------
(* Pass 1: balanced delimiters                                             *)

pairs == [c \in {"{", "(", "["} |->
            IF c = "{" THEN "}" ELSE IF c = "(" THEN ")" ELSE "]"]
closing == {pairs[c] : c \in DOMAIN pairs}

\* the state of the scan: the local variables of _check_balanced, the errors it
\* has appended, and the column the inner loop is at
ScanInit ==
    [stack |-> <<>>, in_string |-> FALSE, in_line_comment |-> FALSE,
     in_block_comment |-> FALSE, prev_char |-> "", errors |-> <<>>, col |-> 1]

\* the delimiter branch of the loop body
ScanDelimiter(st, ch, lineno, col) ==
    IF ch \in DOMAIN pairs
    THEN [st EXCEPT !.stack = Append(@, <<ch, lineno, col>>)]
    ELSE IF ch \in closing
    THEN IF st.stack = <<>>
         THEN [st EXCEPT !.errors = Append(@,
                  ValidationError(lineno, col, <<"Unmatched closing", ch>>, "error"))]
         ELSE LET top == st.stack[Len(st.stack)]
                  expected == pairs[top[1]]
                  popped == [st EXCEPT !.stack = Take(@, Len(@) - 1)]
              IN  IF ch # expected
                  THEN [popped EXCEPT !.errors = Append(@,
                          ValidationError(lineno, col,
                              <<"Mismatched delimiter", expected, top[2], top[3], ch>>,
                              "error"))]
                  ELSE popped
    ELSE st

\* whether the two-character lookback closes the block comment
ClosesBlock(in_block, prev, ch) == in_block /\ prev = "*" /\ ch = "/"

\* whether a double quote toggles string mode
TogglesString(prev, ch) == ch = "\"" /\ prev # "\\"

\* the statements of the loop body, in their order: the line-comment test,
TrackLineComment(st, ch) ==
    IF ~st.in_string /\ ~st.in_block_comment /\ st.prev_char = "/" /\ ch = "/"
    THEN [st EXCEPT !.in_line_comment = TRUE] ELSE st

\* the block-comment test,
TrackBlockComment(st, ch) ==
    IF ~st.in_string /\ ~st.in_line_comment /\ st.prev_char = "/" /\ ch = "*"
    THEN [st EXCEPT !.in_block_comment = TRUE] ELSE st

\* the string test,
TrackString(st, ch) ==
    IF TogglesString(st.prev_char, ch) THEN [st EXCEPT !.in_string = ~@] ELSE st

\* what follows the string test,
AfterString(st, ch, lineno, col) ==
    IF st.in_string
    THEN [st EXCEPT !.prev_char = ch]
    ELSE [ScanDelimiter(st, ch, lineno, col) EXCEPT !.prev_char = ch]

\* what follows the two comment tests
AfterComments(st, ch, lineno, col) ==
    IF ClosesBlock(st.in_block_comment, st.prev_char, ch)
    THEN [st EXCEPT !.in_block_comment = FALSE, !.prev_char = ch]
    ELSE IF st.in_line_comment \/ st.in_block_comment
    THEN [st EXCEPT !.prev_char = ch]
    ELSE AfterString(TrackString(st, ch), ch, lineno, col)

\* one iteration of the inner loop: character ch at (lineno, col)
ScanChar(st, ch, lineno, col) ==
    AfterComments(TrackBlockComment(TrackLineComment(st, ch), ch), ch, lineno, col)

\* the inner loop over the rest of a line
RECURSIVE ScanCols(_, _, _)
ScanCols(st, line, lineno) ==
    IF st.col > Len(line) THEN st
    ELSE ScanCols([ScanChar(st, line[st.col], lineno, st.col) EXCEPT !.col = @ + 1],
                  line, lineno)

\* the state a line starts in: of the flags only the line-comment flag is reset
LineStart(st) == [st EXCEPT !.in_line_comment = FALSE, !.col = 1]

\* the outer loop from line lineno on
RECURSIVE ScanLines(_, _, _)
ScanLines(st, lns, lineno) ==
    IF lineno > Len(lns) THEN st
    ELSE ScanLines(ScanCols(LineStart(st), lns[lineno], lineno), lns, lineno + 1)

\* the errors for what is left on the stack
Unclosed(stack) ==
    [i \in 1..Len(stack) |->
        ValidationError(stack[i][2], stack[i][3],
            <<"Unclosed", stack[i][1], pairs[stack[i][1]]>>, "error")]

\* what the scan adds to self.errors, st the state the loops end in
ScanErrors(st) == st.errors \o Unclosed(st.stack)

CheckBalanced(lns, ctx) ==
    IF ctx.raised THEN ctx
    ELSE [ctx EXCEPT !.errors = @ \o ScanErrors(ScanLines(ScanInit, lns, 1))]

-----------------------------------------------------------------------------
(* Line classification shared by passes 2 to 5                             *)

tok_line_comment == <<"/","/">>
tok_block_comment == <<"/","*">>
kw_import == <<"i","m","p","o","r","t">>

\* whether a stripped line opens with a comment marker
OpensComment(stripped) ==
    StartsWith(stripped, tok_line_comment) \/ StartsWith(stripped, tok_block_comment)

\* stripped.startswith("//") or stripped.startswith("/*")
IsCommentLine(line) == OpensComment(Strip(line))

\* line.index(p) + 1; 0 stands for the ValueError of a failed lookup
Index(line, p) == Find(line, p)

-----------------------------------------------------------------------------
(* Pass 2: keyword validation                                              *)

\* the keys of v1_to_v2, in the order the dict holds them
v1_to_v2 ==
    << <<"b","l","o","c","k">>,
       <<"v","a","l","u","e"," ","t","y","p","e">>,
       <<"f","l","o","w","P","o","r","t">>,
       <<"S","y","s","M","L",":",":">> >>

\* the test left out: every key is looked up in every line
HasKeywordUnchecked(line, v1_kw) == TRUE

\* if v1_kw in line
HasKeyword(line, v1_kw) == Contains(line, v1_kw)

\* the loop over v1_to_v2 for one line, from the k-th key on
RECURSIVE KeywordsOfLine(_, _, _, _)
KeywordsOfLine(line, lineno, k, ctx) ==
    IF k > Len(v1_to_v2) \/ ctx.raised THEN ctx
    ELSE LET v1_kw == v1_to_v2[k]
             col == Index(line, v1_kw)
             next == IF ~HasKeyword(line, v1_kw) THEN ctx
                     ELSE IF col = 0 THEN [ctx EXCEPT !.raised = TRUE]
                     ELSE AddError(ctx, ValidationError(lineno, col,
                              <<"SysML v1 syntax", v1_kw>>, "warning"))
         IN  KeywordsOfLine(line, lineno, k + 1, next)

RECURSIVE KeywordsFrom(_, _, _)
KeywordsFrom(lns, lineno, ctx) ==
    IF lineno > Len(lns) \/ ctx.raised THEN ctx
    ELSE KeywordsFrom(lns, lineno + 1,
            IF IsCommentLine(lns[lineno]) THEN ctx
            ELSE KeywordsOfLine(lns[lineno], lineno, 1, ctx))

CheckKeywords(lns, ctx) == KeywordsFrom(lns, 1, ctx)

-----------------------------------------------------------------------------
(* Regular expressions.  A match is [start, end, groups]: the 1-based      *)
(* position of its first character, the position after its last one, and   *)
(* the texts of its groups; NoMatch stands for None.                       *)

NoMatch == [start |-> 0, end |-> 0, groups |-> <<>>]
Match(start, end, groups) == [start |-> start, end |-> end, groups |-> groups]

\* [\w<extra>]* from i on: the position after the run
RECURSIVE RunEnd(_, _, _)
RunEnd(s, i, extra) ==
    IF i <= Len(s) /\ (IsWord(s[i]) \/ s[i] \in extra)
    THEN RunEnd(s, i + 1, extra) ELSE i

\* \w[\w<extra>]* at i: the position after the name, 0 when there is none
NameEnd(s, i, extra) ==
    IF i <= Len(s) /\ IsWord(s[i]) THEN RunEnd(s, i + 1, extra) ELSE 0

\* \s+ at i: the position after the white space, 0 when there is none
SpacesEnd(s, i) ==
    IF i <= Len(s) /\ IsSpace(s[i]) THEN SkipSpaces(s, i) ELSE 0

\* (k1|k2|...) at i: the index of the first alternative, from the k-th on,
\* found there, 0 when none
RECURSIVE AltFrom(_, _, _, _)
AltFrom(s, i, alts, k) ==
    IF k > Len(alts) THEN 0
    ELSE IF StartsAt(s, alts[k], i) THEN k
    ELSE AltFrom(s, i, alts, k + 1)

AltAt(s, i, alts) == AltFrom(s, i, alts, 1)

\* The pieces of a pattern, each from a position to the position after what it
\* matched; 0 is the failure of the match and is passed on
\* a literal text
Lit(s, i, p) == IF i # 0 /\ StartsAt(s, p, i) THEN i + Len(p) ELSE 0
\* \s+
Sp1(s, i) == IF i = 0 THEN 0 ELSE SpacesEnd(s, i)
\* \s*
Sp0(s, i) == IF i = 0 THEN 0 ELSE SkipSpaces(s, i)
\* \w[\w<extra>]*
Nm(s, i, extra) == IF i = 0 THEN 0 ELSE NameEnd(s, i, extra)

\* the match from i to e when e is no failure, its last group the text from b
GroupMatch(s, i, gs, b, e) ==
    IF e = 0 THEN NoMatch ELSE Match(i, e, Append(gs, SubSeq(s, b, e - 1)))

kw_def == <<"d","e","f">>
kw_package == <<"p","a","c","k","a","g","e">>
kw_constraint == <<"c","o","n","s","t","r","a","i","n","t">>
suffix_def == <<"_","d","e","f">>
tok_specializes == <<":",">">>

DefKeywords ==
    << <<"p","a","r","t">>,
       <<"p","o","r","t">>,
       <<"r","e","q","u","i","r","e","m","e","n","t">>,
       <<"c","o","n","s","t","r","a","i","n","t">>,
       <<"a","c","t","i","o","n">>,
       <<"s","t","a","t","e">>,
       <<"e","n","u","m">>,
       <<"i","t","e","m">>,
       <<"i","n","t","e","r","f","a","c","e">>,
       <<"c","o","n","n","e","c","t","i","o","n">>,
       <<"a","t","t","r","i","b","u","t","e">> >>
UsageKeywords ==
    << <<"p","a","r","t">>,
       <<"p","o","r","t">>,
       <<"a","t","t","r","i","b","u","t","e">>,
       <<"r","e","q","u","i","r","e","m","e","n","t">>,
       <<"c","o","n","s","t","r","a","i","n","t">>,
       <<"a","c","t","i","o","n">>,
       <<"s","t","a","t","e">>,
       <<"i","t","e","m">> >>
TypeRefKeywords ==
    << <<"p","a","r","t">>,
       <<"p","o","r","t">>,
       <<"a","t","t","r","i","b","u","t","e">>,
       <<"i","t","e","m">> >>
ConstraintKeywords ==
    << <<"r","e","q","u","i","r","e">>,
       <<"a","s","s","u","m","e">>,
       <<"a","s","s","e","r","t">> >>
ImportKeywords ==
    << <<"i","m","p","o","r","t">>,
       <<"a","l","i","a","s">> >>

\* def_pattern at i: (part|...|attribute)\s+def\s+(\w[\w']*)
\* k is the alternative found at i, b the place of the name
DefName(s, i, k, b) == GroupMatch(s, i, <<DefKeywords[k]>>, b, Nm(s, b, {"'"}))

DefKeyword(s, i, k) ==
    IF k = 0 THEN NoMatch
    ELSE DefName(s, i, k, Sp1(s, Lit(s, Sp1(s, i + Len(DefKeywords[k])), kw_def)))

DefPatternAt(s, i) == DefKeyword(s, i, AltAt(s, i, DefKeywords))

\* pkg_pattern at i: package\s+(\w[\w':]*)
\* b is the place of the name
PkgName(s, i, b) == GroupMatch(s, i, <<>>, b, Nm(s, b, {"'", ":"}))

PkgPatternAt(s, i) == PkgName(s, i, Sp1(s, Lit(s, i, kw_package)))

\* <keyword>\s+(\w[\w']*)\s*:\s*(\w[\w<extra>]*) at i, the keyword one of kws
\* kw is the keyword found at i, a the place of the name, b the place after
\* it, d the place of the type
UsageType(s, i, kw, extra, a, b, d) ==
    IF b = 0 THEN NoMatch
    ELSE GroupMatch(s, i, <<kw, SubSeq(s, a, b - 1)>>, d, Nm(s, d, extra))

UsageColon(s, i, kw, extra, a, b) ==
    UsageType(s, i, kw, extra, a, b, Sp0(s, Lit(s, Sp0(s, b), <<":">>)))

UsageName(s, i, kw, extra, a) == UsageColon(s, i, kw, extra, a, Nm(s, a, {"'"}))

UsageKeyword(s, i, kws, extra, k) ==
    IF k = 0 THEN NoMatch
    ELSE UsageName(s, i, kws[k], extra, Sp1(s, i + Len(kws[k])))

TypedUsageAt(s, i, kws, extra) == UsageKeyword(s, i, kws, extra, AltAt(s, i, kws))

\* usage_pattern at i
UsagePatternAt(s, i) == TypedUsageAt(s, i, UsageKeywords, {"'", ":"})

\* a match of which only the n-th group is kept
OnlyGroup(m, n) ==
    IF m = NoMatch THEN NoMatch ELSE Match(m.start, m.end, <<m.groups[n]>>)

\* type_ref_pattern at i; its one group is the type reference
TypeRefPatternAt(s, i) == OnlyGroup(TypedUsageAt(s, i, TypeRefKeywords, {"'"}), 3)

\* specialization_pattern at i: :>\s*(\w[\w']*)
\* b is the place of the name
SpecializationName(s, i, b) == GroupMatch(s, i, <<>>, b, Nm(s, b, {"'"}))

SpecializationPatternAt(s, i) ==
    SpecializationName(s, i, Sp0(s, Lit(s, i, tok_specializes)))

\* mult_pattern at i: \[([^\]]*)\]
\* e is the place of the first ] after i, 0 when there is none
MultClose(s, i, e) ==
    IF e = 0 THEN NoMatch ELSE Match(i, e + 1, <<SubSeq(s, i + 1, e - 1)>>)

MultPatternAt(s, i) ==
    IF s[i] = "[" THEN MultClose(s, i, FindFrom(s, <<"]">>, i + 1)) ELSE NoMatch

\* constraint_pattern at i: (require|assume|assert)\s+constraint\b
\* k is the alternative found at i, e the place after the match
ConstraintEnd(s, i, k, e) ==
    IF e = 0 \/ (e <= Len(s) /\ IsWord(s[e])) THEN NoMatch
    ELSE Match(i, e, <<ConstraintKeywords[k]>>)

ConstraintKeyword(s, i, k) ==
    IF k = 0 THEN NoMatch
    ELSE ConstraintEnd(s, i, k,
            Lit(s, Sp1(s, i + Len(ConstraintKeywords[k])), kw_constraint))

ConstraintPatternAt(s, i) == ConstraintKeyword(s, i, AltAt(s, i, ConstraintKeywords))

\* the patterns finditer and search are used with
PatternAt(p, s, i) ==
    CASE p = "def_pattern" -> DefPatternAt(s, i)
      [] p = "pkg_pattern" -> PkgPatternAt(s, i)
      [] p = "usage_pattern" -> UsagePatternAt(s, i)
      [] p = "type_ref_pattern" -> TypeRefPatternAt(s, i)
      [] p = "specialization_pattern" -> SpecializationPatternAt(s, i)
      [] p = "mult_pattern" -> MultPatternAt(s, i)
      [] p = "constraint_pattern" -> ConstraintPatternAt(s, i)

\* pattern.search(s, pos): the leftmost match starting at or after pos; m is
\* what the pattern gives at pos
RECURSIVE Search(_, _, _)
SearchOn(m, p, s, pos) == IF m # NoMatch THEN m ELSE Search(p, s, pos + 1)

Search(p, s, pos) ==
    IF pos > Len(s) THEN NoMatch ELSE SearchOn(PatternAt(p, s, pos), p, s, pos)

\* pattern.finditer(s): the matches left to right, none overlapping; m is the
\* leftmost match at or after the place the last one ended
RECURSIVE FindIterFrom(_, _, _)
FindIterOn(m, p, s) ==
    IF m = NoMatch THEN <<>> ELSE <<m>> \o FindIterFrom(p, s, m.end)

FindIterFrom(p, s, pos) == FindIterOn(Search(p, s, pos), p, s)

FindIter(p, s) == FindIterFrom(p, s, 1)

-----------------------------------------------------------------------------
(* Pass 3: symbol collection                                               *)

\* Symbol(name, kind, line, parent=None, type_ref=None, children=[])
Symbol(name, kind, line, type_ref) ==
    [name |-> name, kind |-> kind, line |-> line, parent |-> None,
     type_ref |-> type_ref, children |-> <<>>]

\* self.symbols[name] = sym
PutSymbol(syms, name, sym) ==
    [n \in DOMAIN syms \cup {name} |-> IF n = name THEN sym ELSE syms[n]]

\* the three finditer loops of one line, each from its k-th match on
RECURSIVE DefsOfLine(_, _, _, _)
DefsOfLine(ms, lineno, k, syms) ==
    IF k > Len(ms) THEN syms
    ELSE DefsOfLine(ms, lineno, k + 1,
            PutSymbol(syms, ms[k].groups[2],
                Symbol(ms[k].groups[2], ms[k].groups[1] \o suffix_def, lineno, None)))

RECURSIVE PkgsOfLine(_, _, _, _)
PkgsOfLine(ms, lineno, k, syms) ==
    IF k > Len(ms) THEN syms
    ELSE PkgsOfLine(ms, lineno, k + 1,
            PutSymbol(syms, ms[k].groups[1],
                Symbol(ms[k].groups[1], kw_package, lineno, None)))

RECURSIVE UsagesOfLine(_, _, _, _)
UsagesOfLine(ms, lineno, k, syms) ==
    IF k > Len(ms) THEN syms
    ELSE UsagesOfLine(ms, lineno, k + 1,
            PutSymbol(syms, ms[k].groups[2],
                Symbol(ms[k].groups[2], ms[k].groups[1], lineno, ms[k].groups[3])))

SymbolsOfLine(line, lineno, syms) ==
    LET s1 == DefsOfLine(FindIter("def_pattern", line), lineno, 1, syms)
        s2 == PkgsOfLine(FindIter("pkg_pattern", line), lineno, 1, s1)
    IN  UsagesOfLine(FindIter("usage_pattern", line), lineno, 1, s2)

RECURSIVE SymbolsFrom(_, _, _)
SymbolsFrom(lns, lineno, syms) ==
    IF lineno > Len(lns) THEN syms
    ELSE SymbolsFrom(lns, lineno + 1,
            IF IsCommentLine(lns[lineno]) THEN syms
            ELSE SymbolsOfLine(lns[lineno], lineno, syms))

CollectSymbols(lns, ctx) ==
    IF ctx.raised THEN ctx
    ELSE [ctx EXCEPT !.symbols = SymbolsFrom(lns, 1, @)]

-----------------------------------------------------------------------------
(* Pass 4: type reference checking                                         *)

builtins ==
    { <<"R","e","a","l">>,
      <<"I","n","t","e","g","e","r">>,
      <<"B","o","o","l","e","a","n">>,
      <<"S","t","r","i","n","g">>,
      <<"N","a","t","u","r","a","l">>,
      <<"P","o","s","i","t","i","v","e">>,
      <<"S","c","a","l","a","r","V","a","l","u","e","s">>,
      <<"N","u","m","e","r","i","c","a","l","V","a","l","u","e">>,
      <<"M","a","s","s","V","a","l","u","e">>,
      <<"L","e","n","g","t","h","V","a","l","u","e">>,
      <<"T","i","m","e","V","a","l","u","e">>,
      <<"F","o","r","c","e","V","a","l","u","e">>,
      <<"V","o","l","t","a","g","e","V","a","l","u","e">>,
      <<"C","u","r","r","e","n","t","V","a","l","u","e">>,
      <<"P","o","w","e","r","V","a","l","u","e">>,
      <<"T","e","m","p","e","r","a","t","u","r","e","V","a","l","u","e">>,
      <<"P","r","e","s","s","u","r","e","V","a","l","u","e">>,
      <<"F","r","e","q","u","e","n","c","y","V","a","l","u","e">>,
      <<"S","p","e","e","d","V","a","l","u","e">>,
      <<"A","c","c","e","l","e","r","a","t","i","o","n","V","a","l","u","e">>,
      <<"A","n","g","u","l","a","r","V","e","l","o","c","i","t","y","V","a","l","u","e">>,
      <<"T","o","r","q","u","e","V","a","l","u","e">>,
      <<"E","n","e","r","g","y","V","a","l","u","e">> }

\* ref not in self.symbols and ref not in builtins
Unresolved(ref, syms) == ref \notin DOMAIN syms /\ ref \notin builtins

\* one finditer loop of a line, from its k-th match on; what names the message
RECURSIVE RefsOfLine(_, _, _, _, _, _)
RefsOfLine(ms, what, line, lineno, k, ctx) ==
    IF k > Len(ms) \/ ctx.raised THEN ctx
    ELSE LET ref == ms[k].groups[1]
             col == Index(line, ref)
             next == IF ~Unresolved(ref, ctx.symbols) THEN ctx
                     ELSE IF col = 0 THEN [ctx EXCEPT !.raised = TRUE]
                     ELSE AddError(ctx, ValidationError(lineno, col,
                              <<what, ref>>, "warning"))
         IN  RefsOfLine(ms, what, line, lineno, k + 1, next)

\* the lines the pass skips
SkipsReferences(line) ==
    IsCommentLine(line) \/ StartsWith(Strip(line), kw_import)

RECURSIVE ReferencesFrom(_, _, _)
ReferencesFrom(lns, lineno, ctx) ==
    IF lineno > Len(lns) \/ ctx.raised THEN ctx
    ELSE LET line == lns[lineno]
             c1 == RefsOfLine(FindIter("type_ref_pattern", line),
                       "Unresolved type reference", line, lineno, 1, ctx)
             c2 == RefsOfLine(FindIter("specialization_pattern", line),
                       "Unresolved specialization target", line, lineno, 1, c1)
         IN  ReferencesFrom(lns, lineno + 1,
                IF SkipsReferences(line) THEN ctx ELSE c2)

CheckTypeReferences(lns, ctx) == ReferencesFrom(lns, 1, ctx)

-----------------------------------------------------------------------------
(* Pass 5: multiplicity syntax                                             *)

\* (\d+|\*) at i: the position after it, 0 when there is none
RECURSIVE DigitsEnd(_, _)
DigitsEnd(s, i) == IF i <= Len(s) /\ IsDigit(s[i]) THEN DigitsEnd(s, i + 1) ELSE i

BoundEnd(s, i) ==
    IF i = 0 \/ i > Len(s) THEN 0
    ELSE IF s[i] = "*" THEN i + 1
    ELSE IF IsDigit(s[i]) THEN DigitsEnd(s, i) ELSE 0

\* valid_mult.match(content): ^(\d+|\*)(\.\.(\d+|\*))?$
\* a is the place after the first bound
ValidRange(content, a) ==
    /\ a # 0
    /\ \/ a = Len(content) + 1
       \/ BoundEnd(content, Lit(content, a, <<".", ".">>)) = Len(content) + 1

\* the pattern without its final $: a bound at the start is enough
ValidMultPrefix(content) == BoundEnd(content, 1) # 0

ValidMult(content) == ValidRange(content, BoundEnd(content, 1))

\* the test made on the stripped content of a bracket
InvalidMultiplicity(content) ==
    /\ ~IsAlpha(content)
    /\ content # <<>>
    /\ ~ValidMult(content)

\* the body of the loop for the match m, content its group stripped
MultOfMatch(m, content, lineno, ctx) ==
    IF InvalidMultiplicity(content)
    THEN AddError(ctx, ValidationError(lineno, m.start,
            <<"Invalid multiplicity", content>>, "error"))
    ELSE ctx

RECURSIVE MultsOfLine(_, _, _, _)
MultsOfLine(ms, lineno, k, ctx) ==
    IF k > Len(ms) THEN ctx
    ELSE MultsOfLine(ms, lineno, k + 1,
            MultOfMatch(ms[k], Strip(ms[k].groups[1]), lineno, ctx))

RECURSIVE MultiplicityFrom(_, _, _)
MultiplicityFrom(lns, lineno, ctx) ==
    IF lineno > Len(lns) THEN ctx
    ELSE MultiplicityFrom(lns, lineno + 1,
            IF IsCommentLine(lns[lineno]) THEN ctx
            ELSE MultsOfLine(FindIter("mult_pattern", lns[lineno]), lineno, 1, ctx))

CheckMultiplicity(lns, ctx) ==
    IF ctx.raised THEN ctx ELSE MultiplicityFrom(lns, 1, ctx)

-----------------------------------------------------------------------------
(* Pass 6: constraint block validation                                     *)

\* the loop over self.lines[lineno:], from line n on: whether the first line
\* that is not blank holds a brace
RECURSIVE FoundBrace(_, _)
FoundBrace(lns, n) ==
    IF n > Len(lns) THEN FALSE
    ELSE IF Strip(lns[n]) # <<>> THEN Contains(lns[n], <<"{">>)
    ELSE FoundBrace(lns, n + 1)

\* the one match constraint_pattern.search finds in a line
ConstraintMatch(line) == Search("constraint_pattern", line, 1)

\* the body of the loop for the line lineno, m the match found in it
ConstraintOfLine(lns, lineno, m, ctx) ==
    IF /\ m # NoMatch
       /\ ~Contains(Drop(lns[lineno], m.end), <<"{">>)
       /\ ~FoundBrace(lns, lineno + 1)
    THEN AddError(ctx, ValidationError(lineno, m.start,
            <<"should be followed by a block", m.groups[1]>>, "warning"))
    ELSE ctx

RECURSIVE ConstraintsFrom(_, _, _)
ConstraintsFrom(lns, lineno, ctx) ==
    IF lineno > Len(lns) THEN ctx
    ELSE ConstraintsFrom(lns, lineno + 1,
            ConstraintOfLine(lns, lineno, ConstraintMatch(lns[lineno]), ctx))

CheckConstraintBlocks(lns, ctx) ==
    IF ctx.raised THEN ctx ELSE ConstraintsFrom(lns, 1, ctx)

-----------------------------------------------------------------------------
(* Pass 7: statement termination                                           *)

\* needs_semi.match(line): ^\s*(import|alias)\s+.*[^;{}\s]\s*$
\* The keyword follows the leading white space; white space follows it; the
\* last character that is not white space comes after that white space and
\* is none of ; { }.  j is the place after the keyword, 0 when there is none
SemiTail(line, j, last) ==
    /\ j # 0
    /\ j <= Len(line) /\ IsSpace(line[j])
    /\ last > j
    /\ line[last] \notin {";", "{", "}"}

\* the place after the k-th alternative found at i
AltEnd(i, alts, k) == IF k = 0 THEN 0 ELSE i + Len(alts[k])

SemiKeyword(line, i) ==
    SemiTail(line, AltEnd(i, ImportKeywords, AltAt(line, i, ImportKeywords)),
             SkipSpacesBack(line, Len(line)))

NeedsSemi(line) == SemiKeyword(line, SkipSpaces(line, 1))

RECURSIVE SemicolonsFrom(_, _, _)
SemicolonsFrom(lns, lineno, ctx) ==
    IF lineno > Len(lns) THEN ctx
    ELSE SemicolonsFrom(lns, lineno + 1,
            IF NeedsSemi(lns[lineno])
            THEN AddError(ctx, ValidationError(lineno, Len(lns[lineno]),
                    <<"should end with ;">>, "warning"))
            ELSE ctx)

CheckSemicolons(lns, ctx) ==
    IF ctx.raised THEN ctx ELSE SemicolonsFrom(lns, 1, ctx)

-----------------------------------------------------------------------------
(* validate and validate_sysmlv2                                           *)

\* (e.line, e.col) <= (f.line, f.col), the order of the sort key
KeyLeq(e, f) == e.line < f.line \/ (e.line = f.line /\ e.col <= f.col)

\* the number of elements a stable sort puts before the i-th: those of a
\* smaller key, and those of the same key that come earlier
SortRank(errs, i) ==
    Cardinality({j \in 1..Len(errs) :
        \/ ~KeyLeq(errs[i], errs[j])
        \/ (KeyLeq(errs[j], errs[i]) /\ j < i)})

\* the sort left out: the errors in the order the passes appended them
UnsortedErrors(errs) == errs

\* self.errors.sort(key=lambda e: (e.line, e.col)), a stable sort
SortErrors(errs) ==
    [k \in 1..Len(errs) |->
        errs[CHOOSE i \in 1..Len(errs) : SortRank(errs, i) = k - 1]]

\* SysMLv2Validator(): the fields of a new instance
NewValidator == [errors |-> <<>>, symbols |-> <<>>, lines |-> <<>>]

\* the reset left out: the errors of the earlier calls are kept
StaleErrors(old) == old

\* self.errors = [] at the start of a call
FreshErrors(old) == <<>>

\* self.symbols = {} at the start of a call
FreshSymbols(old) == <<>>

\* the third and the fourth pass exchanged: references are resolved against
\* a symbol table not yet built
RunPassesResolvingFirst(lns, ctx) ==
    CheckSemicolons(lns,
      CheckConstraintBlocks(lns,
        CheckMultiplicity(lns,
          CollectSymbols(lns,
            CheckTypeReferences(lns,
              CheckKeywords(lns,
                CheckBalanced(lns, ctx)))))))

\* the seven passes in the order validate runs them
RunPasses(lns, ctx) ==
    CheckSemicolons(lns,
      CheckConstraintBlocks(lns,
        CheckMultiplicity(lns,
          CheckTypeReferences(lns,
            CollectSymbols(lns,
              CheckKeywords(lns,
                CheckBalanced(lns, ctx)))))))

\* what validate returns: the dicts of the errors
Returned(errs) == [i \in 1..Len(errs) |-> ToDict(errs[i])]

\* the end of validate, ctx the state the passes leave: the fields of self and
\* what is returned (<<list>>), or <<>> with raised when an exception ended it
Finish(lns, ctx) ==
    IF ctx.raised
    THEN [lines |-> lns, errors |-> ctx.errors, symbols |-> ctx.symbols,
          raised |-> TRUE, returned |-> <<>>]
    ELSE [lines |-> lns, errors |-> SortErrors(ctx.errors), symbols |-> ctx.symbols,
          raised |-> FALSE, returned |-> <<Returned(SortErrors(ctx.errors))>>]

\* validate on the lines of the document
ValidateLines(self, lns) ==
    Finish(lns, RunPasses(lns,
        Ctx(FreshErrors(self.errors), FreshSymbols(self.symbols), FALSE)))

\* validate(source) on the instance self
ValidateCall(self, src) == ValidateLines(self, SplitLines(src))

\* the filter left out: every diagnostic is counted
CountAnySeverity(diags, severity) == Len(diags)

\* sum(1 for e in errors if e["severity"] == severity)
CountSeverity(diags, severity) ==
    Cardinality({i \in 1..Len(diags) : diags[i].severity = severity})

\* the dict validate_sysmlv2 builds from the list validate returned and the
\* symbols the validator holds
BuildResult(diags, syms) ==
    LET error_count == CountSeverity(diags, "error")
        warning_count == CountSeverity(diags, "warning")
    IN  [valid |-> error_count = 0,
         error_count |-> error_count,
         warning_count |-> warning_count,
         diagnostics |-> diags,
         symbols |-> [n \in DOMAIN syms |->
                        [kind |-> syms[n].kind, line |-> syms[n].line,
                         type_ref |-> syms[n].type_ref]]]

-----------------------------------------------------------------------------
(* Actions                                                                 *)

\* the fields of the long-lived validator
Self == [errors |-> errors, symbols |-> symbols, lines |-> lines]

\* the fields a call r leaves and what it returned
Commit(r) ==
    /\ lines' = r.lines
    /\ errors' = r.errors
    /\ symbols' = r.symbols
    /\ returned' = r.returned
    /\ raised' = r.raised

\* the dict validate_sysmlv2 returns after the call r of validate
CommitResult(r) ==
    /\ Commit(r)
    /\ result' = IF r.raised THEN <<>>
                 ELSE <<BuildResult(r.returned[1], r.symbols)>>

\* validator.validate(src) on the long-lived instance
Validate(src) ==
    /\ source' = src
    /\ Commit(ValidateCall(Self, src))
    /\ reused' = (errors # <<>> \/ DOMAIN symbols # {})
    /\ UNCHANGED result

\* validate_sysmlv2(src): lines, errors and symbols are the fields of the
\* validator the function constructs
ValidateSysmlv2(src) ==
    /\ source' = src
    /\ CommitResult(ValidateCall(NewValidator, src))
    /\ reused' = FALSE

-----------------------------------------------------------------------------
(* Documents                                                               *)

\* the texts over an alphabet of at most n characters
TextsUpTo(alphabet, n) == UNION {[1..k -> alphabet] : k \in 0..n}

\* the fragments of fs one after the other
RECURSIVE Flatten(_)
Flatten(fs) == IF fs = <<>> THEN <<>> ELSE fs[1] \o Flatten(Tail(fs))

\* the documents made of at most n fragments of a vocabulary
DocsOf(vocabulary, n) == {Flatten(fs) : fs \in TextsUpTo(vocabulary, n)}


-----------------------------------------------------------------------------
(* Bounds and input sets                                                   *)

\* fragments in a document of the delimiter scan
MaxScanLen == 4
\* tokens between the brackets of a document of the multiplicity check
MaxMultLen == 4
\* fragments in a document handed to validate_sysmlv2
MaxFrags == 3
\* fragments in a document handed to a long-lived validator
MaxCallFrags == 2

\* the characters the delimiter scan tells apart and one it does not, and the
\* two markers of a block comment
ScanVocabulary ==
    { <<"{">>, <<"}">>, <<"(">>, <<"]">>, <<"/">>, <<"*">>, <<"\"">>, <<"\\">>,
      <<NL>>, <<"x">>, <<"/", "*">>, <<"*", "/">> }

ScanDocuments == DocsOf(ScanVocabulary, MaxScanLen)

\* the tokens found between brackets
MultVocabulary ==
    { <<"1">>, <<"*">>, <<".", ".">>, <<"x">>, <<" ">>, <<"[">>, <<"]">>, <<NL>> }

\* what a line holds before its first bracket: nothing, or a comment marker
MultLeads == { <<>>, <<"/", "/">> }

\* a bracket pair around tokens, after a lead
MultDocuments ==
    { lead \o <<"[">> \o content \o <<"]">> :
        lead \in MultLeads, content \in DocsOf(MultVocabulary, MaxMultLen) }

\* pieces of SysML text: a line break, a blank, a brace, a comment opener, a
\* legacy keyword, typed usages, a definition, a constraint keyword pair, an
\* import and a specialization
Vocabulary ==
    { <<"\n">>,
      <<" ">>,
      <<"{">>,
      <<"/","/">>,
      <<"b","l","o","c","k">>,
      <<"p","a","r","t"," ","a",":","T">>,
      <<"a","c","t","i","o","n"," ","T",":","U">>,
      <<"p","a","r","t"," ","d","e","f"," ","T">>,
      <<"r","e","q","u","i","r","e"," ","c","o","n","s","t","r","a","i","n","t">>,
      <<"i","m","p","o","r","t"," ","a">>,
      <<":",">","T">> }

Documents == DocsOf(Vocabulary, MaxFrags)

\* the pieces the documents handed to a long-lived validator are made of
CallVocabulary ==
    Vocabulary \ { <<"a","c","t","i","o","n"," ","T",":","U">> }

CallDocuments == DocsOf(CallVocabulary, MaxCallFrags)

-----------------------------------------------------------------------------
(* Specifications                                                          *)

\* a validator just constructed; nothing has been returned
Fresh ==
    /\ lines = NewValidator.lines
    /\ errors = NewValidator.errors
    /\ symbols = NewValidator.symbols
    /\ returned = <<>>
    /\ result = <<>>
    /\ raised = FALSE
    /\ reused = FALSE

\* one validator, validate called on it again and again
Init == source = <<>> /\ Fresh

Next == \E src \in CallDocuments : Validate(src)

Spec == Init /\ [][Next]_vars

\* validate_sysmlv2 as a function of its argument: the argument is drawn,
\* the function is applied to it once
Call == result = <<>> /\ ~raised /\ ValidateSysmlv2(source)

InitDoc == source \in Documents /\ Fresh
SpecDoc == InitDoc /\ [][Call]_vars

InitScan == source \in ScanDocuments /\ Fresh
SpecScan == InitScan /\ [][Call]_vars

InitMult == source \in MultDocuments /\ Fresh
SpecMult == InitMult /\ [][Call]_vars

-----------------------------------------------------------------------------
(* The lexical context of a character                                      *)
(* A line comment runs from // to the end of its line, a block comment     *)
(* from /* to the next */ after it, a string from a double quote to the    *)
(* next one; a double quote right after a backslash opens and closes       *)
(* nothing.  The markers are read as whole tokens: no character belongs to *)
(* two of them.                                                            *)

\* whether the character before s[i] on the line is a backslash
Escaped(s, i) == i > 1 /\ s[i - 1] = "\\"

\* n characters of context c read in the state st, mode the state after them
Read(st, c, n, mode) ==
    [mode |-> mode, col |-> st.col + n, out |-> st.out \o [k \in 1..n |-> c]]

\* the token at st.col of the line s
Token(st, s) ==
    CASE st.mode = "Normal" ->
            IF StartsAt(s, <<"/", "/">>, st.col)
            THEN Read(st, "InLineComment", Len(s) - st.col + 1, "Normal")
            ELSE IF StartsAt(s, <<"/", "*">>, st.col)
            THEN Read(st, "InBlockComment", 2, "InBlockComment")
            ELSE IF s[st.col] = "\"" /\ ~Escaped(s, st.col)
            THEN Read(st, "InString", 1, "InString")
            ELSE Read(st, "Normal", 1, "Normal")
      [] st.mode = "InBlockComment" ->
            IF StartsAt(s, <<"*", "/">>, st.col)
            THEN Read(st, "InBlockComment", 2, "Normal")
            ELSE Read(st, "InBlockComment", 1, "InBlockComment")
      [] st.mode = "InString" ->
            IF s[st.col] = "\"" /\ ~Escaped(s, st.col)
            THEN Read(st, "InString", 1, "Normal")
            ELSE Read(st, "InString", 1, "InString")

RECURSIVE Tokens(_, _)
Tokens(st, s) == IF st.col > Len(s) THEN st ELSE Tokens(Token(st, s), s)

\* the contexts of the characters of the lines from the n-th on, the n-th
\* entered in the given mode; st is the state at the end of the n-th line
RECURSIVE ContextsFrom(_, _, _)
ContextsAfter(st, lns, n) == <<st.out>> \o ContextsFrom(st.mode, lns, n + 1)

ContextsFrom(mode, lns, n) ==
    IF n > Len(lns) THEN <<>>
    ELSE ContextsAfter(Tokens([mode |-> mode, col |-> 1, out |-> <<>>], lns[n]),
                       lns, n)

\* Contexts(lns)[l][c] is the context of the c-th character of the l-th line
Contexts(lns) == ContextsFrom("Normal", lns, 1)

\* the places <<line, col>> of the characters of a document
Places(lns) == UNION {{<<l, c>> : c \in 1..Len(lns[l])} : l \in 1..Len(lns)}

\* the places of the characters of the set chars, in code when code is TRUE
\* and in a comment or a string when it is FALSE; cs is Contexts(lns)
PlacesOf(lns, cs, chars, code) ==
    {p \in Places(lns) :
        /\ lns[p[1]][p[2]] \in chars
        /\ (cs[p[1]][p[2]] = "Normal") = code}

\* p comes before q in the document
Before(p, q) == p[1] < q[1] \/ (p[1] = q[1] /\ p[2] < q[2])

\* the places of ps after p and up to q
Between(ps, p, q) == {r \in ps : Before(p, r) /\ ~Before(q, r)}

\* Every closer takes the nearest opener before it that no closer has taken;
\* the opener at p is left open when, up to each closer after it, no more
\* closers than openers follow it
LeftOpen(opens, closes, p) ==
    \A q \in closes :
        Before(p, q) =>
            Cardinality(Between(closes, p, q)) <= Cardinality(Between(opens, p, q))

-----------------------------------------------------------------------------
(* Balanced delimiters                                                     *)

\* the kind of a diagnostic: the fixed text its message opens with
Kind(d) == d.message[1]

\* the number of diagnostics of a kind at a place
CountAt(diags, kind, p) ==
    Cardinality({i \in 1..Len(diags) :
        Kind(diags[i]) = kind /\ diags[i].line = p[1] /\ diags[i].col = p[2]})

\* the diagnostics name each opener in code that is left open once, and no
\* other opener in code
UnclosedNamed(diags, opens, closes) ==
    \A p \in opens :
        CountAt(diags, "Unclosed", p) = IF LeftOpen(opens, closes, p) THEN 1 ELSE 0

UnclosedOf(diags, lns, cs) ==
    UnclosedNamed(diags, PlacesOf(lns, cs, DOMAIN pairs, TRUE),
                  PlacesOf(lns, cs, closing, TRUE))

\* C1: in what validate_sysmlv2 returns, every opener { ( [ that lies in code
\* and is left without a closer has exactly one Unclosed diagnostic, at its
\* own line and column, and an opener in code that a closer took has none.
C1_UnclosedPerOpener ==
    result # <<>> => UnclosedOf(result[1].diagnostics, lines, Contexts(lines))

\* the diagnostics of the delimiter pass among errs
DelimiterKinds == {"Unmatched closing", "Mismatched delimiter", "Unclosed"}
DelimiterDiagnostics(errs) ==
    {errs[i] : i \in {j \in 1..Len(errs) : Kind(errs[j]) \in DelimiterKinds}}

\* the document with the character at p replaced by ch
ReplaceAt(lns, p, ch) == [lns EXCEPT ![p[1]][p[2]] = ch]

\* what the delimiter pass reports for a document
Balance(lns) ==
    DelimiterDiagnostics(CheckBalanced(lns, Ctx(<<>>, <<>>, FALSE)).errors)

\* no delimiter of hidden counts: with a letter in its place the delimiter
\* pass reports what it reported
Unexamined(errs, lns, hidden) ==
    \A p \in hidden : Balance(ReplaceAt(lns, p, "x")) = DelimiterDiagnostics(errs)

\* C2: a delimiter inside a line comment, a block comment or a string is
\* never pushed, popped or reported: the delimiter diagnostics of a document
\* are those of the document with that character replaced by a letter.
C2_HiddenDelimitersIgnored ==
    result # <<>> =>
        Unexamined(errors, lines,
                   PlacesOf(lines, Contexts(lines), DOMAIN pairs \cup closing, FALSE))

-----------------------------------------------------------------------------
(* Comments and strings in the later passes                                *)

\* the columns of a line whose character lies in code; cl is the line's
\* entry of Contexts
CodeColumns(cl) == {c \in 1..Len(cl) : cl[c] = "Normal"}

\* the keyword of a legacy-keyword diagnostic occurs in code on its line
KeywordInCode(d, line, cl) ==
    \E c \in CodeColumns(cl) : StartsAt(line, d.message[2], c)

\* the reference of an unresolved-type diagnostic is that of a typed usage
\* in code on its line
ReferenceInCode(d, line, cl) ==
    \E c \in CodeColumns(cl) :
        TypeRefPatternAt(line, c) = Match(c, TypeRefPatternAt(line, c).end, <<d.message[2]>>)

SilentOutsideCode(diags, lns, cs) ==
    \A i \in 1..Len(diags) :
        /\ Kind(diags[i]) = "SysML v1 syntax" =>
              KeywordInCode(diags[i], lns[diags[i].line], cs[diags[i].line])
        /\ Kind(diags[i]) = "Unresolved type reference" =>
              ReferenceInCode(diags[i], lns[diags[i].line], cs[diags[i].line])

\* C3: a legacy keyword or an undefined type reference inside a comment or a
\* string produces no diagnostic: every legacy-keyword warning names a
\* keyword that occurs in code on its line, and every unresolved-type warning
\* the reference of a typed usage that lies in code on its line.
C3_CommentsProduceNoDiagnostic ==
    result # <<>> => SilentOutsideCode(result[1].diagnostics, lines, Contexts(lines))

-----------------------------------------------------------------------------
(* Type references                                                         *)

\* the typed usages of a line, left to right and none overlapping: a usage
\* keyword of the symbol table builder, a name, a colon and a type reference
RECURSIVE TypedUsages(_, _)
TypedUsagesOn(m, line, pos) ==
    IF m = NoMatch THEN TypedUsages(line, pos + 1)
    ELSE <<m>> \o TypedUsages(line, m.end)

TypedUsages(line, pos) ==
    IF pos > Len(line) THEN <<>>
    ELSE TypedUsagesOn(TypedUsageAt(line, pos, UsageKeywords, {"'"}), line, pos)

\* a warning of the kind names ref on the line l
Warned(diags, l, kind, ref) ==
    \E i \in 1..Len(diags) :
        diags[i].line = l /\ Kind(diags[i]) = kind /\ diags[i].message[2] = ref

\* ref is neither a builtin type nor a key of the symbol table
Undefined(ref, syms) == ref \notin builtins /\ ref \notin DOMAIN syms

\* the group g of each match of ms is warned about exactly when undefined
WarnedWhenUndefined(diags, syms, l, kind, ms, g) ==
    \A k \in 1..Len(ms) :
        Warned(diags, l, kind, ms[k].groups[g]) <=> Undefined(ms[k].groups[g], syms)

\* a line that is no comment line and no import line
ReferenceLine(line) ==
    /\ ~StartsWith(Strip(line), <<"/", "/">>)
    /\ ~StartsWith(Strip(line), <<"/", "*">>)
    /\ ~StartsWith(Strip(line), <<"i", "m", "p", "o", "r", "t">>)

ReferencesResolved(diags, syms, lns) ==
    \A l \in 1..Len(lns) :
        ReferenceLine(lns[l]) =>
            /\ WarnedWhenUndefined(diags, syms, l, "Unresolved type reference",
                                   TypedUsages(lns[l], 1), 3)
            /\ WarnedWhenUndefined(diags, syms, l, "Unresolved specialization target",
                                   FindIter("specialization_pattern", lns[l]), 1)

\* C8: on a line that is no comment line and no import line, every typed
\* usage with one of the eight usage keywords has an Unresolved type
\* reference warning exactly when its type is neither builtin nor a key of
\* the symbol table, and every :> target an Unresolved specialization target
\* warning on the same condition.
C8_EveryTypedUsageResolved ==
    result # <<>> =>
        ReferencesResolved(result[1].diagnostics, result[1].symbols, lines)

-----------------------------------------------------------------------------
(* Constraint blocks                                                       *)

\* the places where a constraint keyword pair begins
ConstraintPlaces(lns) ==
    {p \in Places(lns) : ConstraintPatternAt(lns[p[1]], p[2]) # NoMatch}

Blank(line) == Strip(line) = <<>>

\* the nearest line after the l-th that is not blank holds a {
BraceOnNextLine(lns, l) ==
    \E k \in (l + 1)..Len(lns) :
        /\ ~Blank(lns[k])
        /\ \A j \in (l + 1)..(k - 1) : Blank(lns[j])
        /\ "{" \in {lns[k][c] : c \in 1..Len(lns[k])}

\* a { follows the pair m on its line
BraceOnLine(line, m) == "{" \in {line[c] : c \in m.end..Len(line)}

BlockMissing(lns, p) ==
    /\ ~BraceOnLine(lns[p[1]], ConstraintPatternAt(lns[p[1]], p[2]))
    /\ ~BraceOnNextLine(lns, p[1])

BlocksChecked(diags, lns) ==
    \A p \in ConstraintPlaces(lns) :
        CountAt(diags, "should be followed by a block", p) > 0 <=> BlockMissing(lns, p)

\* C10: every occurrence of a constraint keyword pair, a second one on a line
\* included, has a missing-block warning at its place exactly when no {
\* follows it on its line and the nearest following line that is not blank,
\* if there is one, holds no {.
C10_EveryConstraintChecked ==
    result # <<>> => BlocksChecked(result[1].diagnostics, lines)

-----------------------------------------------------------------------------
(* The result of a call                                                    *)

\* (d.line, d.col) is at most (e.line, e.col), lexicographically
AtMost(d, e) == d.line < e.line \/ (d.line = e.line /\ d.col <= e.col)

Ascending(diags) ==
    \A i \in 1..(Len(diags) - 1) : AtMost(diags[i], diags[i + 1])

\* C4: the list validate returns, and the diagnostics of the dict
\* validate_sysmlv2 returns, are in ascending order of (line, col): of two
\* consecutive diagnostics the first has the smaller or the same (line, col).
C4_DiagnosticsSorted ==
    result # <<>> => Ascending(returned[1]) /\ Ascending(result[1].diagnostics)

\* a diagnostic of the legacy-keyword pass is returned before one of the
\* delimiter pass, which ran first: the sort has moved it
ReorderedBySort(diags) ==
    \E i, j \in 1..Len(diags) :
        /\ i < j
        /\ Kind(diags[i]) = "SysML v1 syntax"
        /\ Kind(diags[j]) \in DelimiterKinds

C4_Witness == result # <<>> /\ ReorderedBySort(result[1].diagnostics)

\* the diagnostics of severity error
ErrorsOf(diags) == {i \in 1..Len(diags) : diags[i].severity = "error"}

ValidIffNoErrors(r) ==
    /\ r.valid <=> r.error_count = 0
    /\ r.error_count = Cardinality(ErrorsOf(r.diagnostics))
    /\ r.valid <=> ErrorsOf(r.diagnostics) = {}

\* C6: in the dict validate_sysmlv2 returns, valid is true exactly when
\* error_count is 0, error_count is the number of returned diagnostics of
\* severity error, and so the warnings have no part in valid.
C6_ValidIffNoErrors == result # <<>> => ValidIffNoErrors(result[1])

\* a valid result that holds warnings
C6_Witness ==
    result # <<>> /\ result[1].valid /\ result[1].warning_count > 0

\* C7: no call ends by an exception, whatever the document: every position
\* looked up for a diagnostic is found; and the result for the empty
\* document has no diagnostics and no symbols.
C7_ValidateTotal ==
    /\ ~raised
    /\ (result # <<>> /\ source = <<>>) =>
          (result[1].diagnostics = <<>> /\ DOMAIN result[1].symbols = {})

\* a result whose diagnostics took a position lookup each: a legacy keyword
\* and an unresolved type reference
C7_Witness ==
    /\ result # <<>>
    /\ \E i, j \in 1..Len(result[1].diagnostics) :
          /\ Kind(result[1].diagnostics[i]) = "SysML v1 syntax"
          /\ Kind(result[1].diagnostics[j]) = "Unresolved type reference"

\* what the last call returned and the symbols it left are those of the
\* call r
SameAs(r) == returned = r.returned /\ symbols = r.symbols

\* C5: whatever calls a validator has served, the list a call returns and
\* the symbol table it leaves are those a validator just constructed gives
\* for the same document: nothing of an earlier call survives.
C5_CallIsolation ==
    returned # <<>> => SameAs(ValidateCall(NewValidator, source))

\* a call on a validator that held diagnostics or symbols of an earlier call
\* has returned no diagnostic and left no symbol
C5_Witness == reused /\ returned = <<<<>>>> /\ DOMAIN symbols = {}

-----------------------------------------------------------------------------
(* Multiplicities                                                          *)

\* an integer or *
IsBound(t) == t = <<"*">> \/ (t # <<>> /\ \A i \in 1..Len(t) : t[i] \in Digits)

\* the grammar: a bound, or a bound, two dots and a bound
Conforms(c) ==
    \/ IsBound(c)
    \/ \E k \in 1..(Len(c) - 1) :
          /\ c[k] = "." /\ c[k + 1] = "."
          /\ IsBound(SubSeq(c, 1, k - 1))
          /\ IsBound(SubSeq(c, k + 2, Len(c)))

\* letters only, and at least one
AllLetters(c) == c # <<>> /\ \A i \in 1..Len(c) : c[i] \in Letters

\* a line whose trimmed text opens with a comment marker
CommentLine(line) ==
    StartsWith(Strip(line), <<"/", "/">>) \/ StartsWith(Strip(line), <<"/", "*">>)

\* the bracket m of the line l, of trimmed content c, is reported exactly
\* when c does not conform; emptyToo tells whether this covers the empty c
BracketChecked(diags, l, m, c, emptyToo) ==
    ~AllLetters(c) =>
        (CountAt(diags, "Invalid multiplicity", <<l, m.start>>) > 0
            <=> (~Conforms(c) /\ (emptyToo \/ c # <<>>)))

BracketsOfLine(diags, l, ms, emptyToo) ==
    \A k \in 1..Len(ms) :
        BracketChecked(diags, l, ms[k], Strip(ms[k].groups[1]), emptyToo)

BracketsChecked(diags, lns, emptyToo) ==
    \A l \in 1..Len(lns) :
        ~CommentLine(lns[l]) =>
            BracketsOfLine(diags, l, FindIter("mult_pattern", lns[l]), emptyToo)

\* C9 as stated: on a line that is no comment line, every bracket whose
\* trimmed content is not letters only has an Invalid multiplicity error at
\* its place exactly when that content does not conform to the grammar, the
\* empty content included among the non-conforming.
C9_NonConformingReported ==
    result # <<>> => BracketsChecked(result[1].diagnostics, lines, TRUE)

\* C9 amended: on a line that is no comment line, every bracket whose trimmed
\* content is not letters only has an Invalid multiplicity error at its place
\* exactly when that content is not empty and does not conform to the
\* grammar; an empty bracket is not reported.
C9_NonEmptyNonConformingReported ==
    result # <<>> => BracketsChecked(result[1].diagnostics, lines, FALSE)

\* a reported content that opens with an integer
C9_Witness ==
    /\ result # <<>>
    /\ \E i \in 1..Len(result[1].diagnostics) :
          /\ Kind(result[1].diagnostics[i]) = "Invalid multiplicity"
          /\ result[1].diagnostics[i].message[2][1] \in Digits

-----------------------------------------------------------------------------
(* The symbol table                                                        *)

\* a declaration of a name at the column pos of the line l
Declaration(name, kind, l, pos, type_ref) ==
    [name |-> name, kind |-> kind, line |-> l, pos |-> pos, type_ref |-> type_ref]

\* the declarations of a line: its definitions, its packages and its typed
\* usages
DeclarationsOfLine(line, l, defs, pkgs, usages) ==
    {Declaration(defs[k].groups[2], defs[k].groups[1] \o <<"_", "d", "e", "f">>,
                 l, defs[k].start, None) : k \in 1..Len(defs)}
    \cup
    {Declaration(pkgs[k].groups[1], <<"p", "a", "c", "k", "a", "g", "e">>,
                 l, pkgs[k].start, None) : k \in 1..Len(pkgs)}
    \cup
    {Declaration(usages[k].groups[2], usages[k].groups[1],
                 l, usages[k].start, usages[k].groups[3]) : k \in 1..Len(usages)}

\* the declarations of a document, those of its comment lines left out
Declarations(lns) ==
    UNION {IF CommentLine(lns[l]) THEN {}
           ELSE DeclarationsOfLine(lns[l], l, FindIter("def_pattern", lns[l]),
                                   FindIter("pkg_pattern", lns[l]),
                                   FindIter("usage_pattern", lns[l])) :
           l \in 1..Len(lns)}

\* no declaration of the name of d comes after d in the document
Latest(d, decls) ==
    \A e \in decls :
        e.name = d.name => ~Before(<<d.line, d.pos>>, <<e.line, e.pos>>)

\* the record rec is that of the declaration d
RecordOf(rec, d) ==
    rec.kind = d.kind /\ rec.line = d.line /\ rec.type_ref = d.type_ref

LastWriteWins(syms, decls) ==
    /\ DOMAIN syms = {d.name : d \in decls}
    /\ \A n \in DOMAIN syms :
          \E d \in decls : d.name = n /\ Latest(d, decls) /\ RecordOf(syms[n], d)

\* C11: the symbol table validate leaves holds one record for each declared
\* name and no other, and the record of a name is that of the declaration of
\* the name that comes latest in the document, on a later line or at a later
\* column of the same line, with its kind, line and type_ref.
C11_LastWriteWins ==
    result # <<>> => LastWriteWins(result[1].symbols, Declarations(lines))

\* the kinds of the warnings of the reference resolver
UnresolvedKinds == {"Unresolved type reference", "Unresolved specialization target"}

\* no warning of the resolver names a declared name
DeclaredResolved(diags, names) ==
    \A i \in 1..Len(diags) :
        Kind(diags[i]) \in UnresolvedKinds => diags[i].message[2] \notin names

\* C12: the symbols of the whole document are collected before a reference
\* is resolved: a type reference or a specialization target whose name is
\* declared in the document, on an earlier or on a later line than the
\* reference, has no unresolved warning.
C12_ResolutionOrderIndependent ==
    result # <<>> =>
        DeclaredResolved(result[1].diagnostics,
                         {d.name : d \in Declarations(lines)})

\* the line l holds a typed usage whose type is the name of d
RefersTo(line, d) ==
    \E c \in 1..Len(line) :
        TypeRefPatternAt(line, c) = Match(c, TypeRefPatternAt(line, c).end, <<d.name>>)

\* a line that the resolver reads refers to a name that only later lines
\* declare, and the resolver has not warned about it
ForwardReference(diags, lns, decls) ==
    \E l \in 1..Len(lns) :
        \E d \in decls :
            /\ ReferenceLine(lns[l])
            /\ RefersTo(lns[l], d)
            /\ \A e \in decls : e.name = d.name => e.line > l
            /\ ~Warned(diags, l, "Unresolved type reference", d.name)

C12_Witness ==
    result # <<>> /\ ForwardReference(result[1].diagnostics, lines, Declarations(lines))

-----------------------------------------------------------------------------
(* Scanner state across line boundaries                                    *)

\* the delimiter scan in which no character of one line is read together
\* with a character of the next: the stack, the block-comment flag and the
\* string flag go from line to line, the character looked back at does not
RECURSIVE ScanLinesApart(_, _, _)
ScanLinesApart(st, lns, lineno) ==
    IF lineno > Len(lns) THEN st
    ELSE ScanLinesApart(ScanCols([LineStart(st) EXCEPT !.prev_char = ""],
                                 lns[lineno], lineno),
                        lns, lineno + 1)

\* what the delimiter pass reports when only the stack, the block-comment
\* flag and the string flag cross a line boundary
BalanceApart(lns) ==
    DelimiterDiagnostics(ScanErrors(ScanLinesApart(ScanInit, lns, 1)))

\* C13: only the block-comment and the string state go from one line to the
\* next: a '/' that ends a line never forms a comment opener with the '/' or
\* '*' that starts the next line, so the delimiter diagnostics of a document
\* are those of the scan that pairs characters within one line only.
C13_LinesScannedApart ==
    result # <<>> => DelimiterDiagnostics(errors) = BalanceApart(lines)

=============================================================================
